---- MODULE Spec2Model ----
(***************************************************************************)
(* Model of the two utility scripts of the repository:                     *)
(*   generate_large_module.py   the templated module generator             *)
(*   scripts/refactor_parser.py the regular-expression allocation rewriter *)
(* Texts are strings; positions are 1-based unless an operator says that   *)
(* it keeps Python's 0-based index (find, insert_pos).                     *)
(***************************************************************************)
EXTENDS Integers, Sequences, FiniteSets, TLC

VARIABLES
    num_functions,  \* generator: the argument of generate_large_module
    gpc,            \* generator: position in generate_large_module
    gi,             \* generator: the loop variable i
    code,           \* generator: the text built so far
    argv,           \* rewriter: sys.argv, program name first
    fs,             \* rewriter: the files, path -> text
    pc,             \* rewriter: position in the __main__ block
    content,        \* rewriter: the local variable content
    stdout,         \* rewriter: the lines printed so far
    exit_code       \* rewriter: -1 while running, else the exit status

gvars == <<num_functions, gpc, gi, code>>
rvars == <<argv, fs, pc, content, stdout, exit_code>>
vars == <<num_functions, gpc, gi, code, argv, fs, pc, content, stdout, exit_code>>

\* ---------------------------------------------------------------- bounds
MaxFunctions == 25
MaxLines == 3

\* ------------------------------------------------------- Python strings
\* s[i] with i 1-based; "" outside the text
Ch(s, i) == IF i >= 1 /\ i <= Len(s) THEN SubSeq(s, i, i) ELSE ""

\* s[i-1:].startswith(p)
StartsAt(s, i, p) ==
    /\ i >= 1
    /\ i + Len(p) - 1 <= Len(s)
    /\ SubSeq(s, i, i + Len(p) - 1) = p

\* the 1-based positions from i on at which p occurs in s
OccurrencesFrom(s, p, i) ==
    { j \in i..(Len(s) - Len(p) + 1) : SubSeq(s, j, j + Len(p) - 1) = p }

Occurrences(s, p) == OccurrencesFrom(s, p, 1)

\* p in s
Contains(s, p) == Occurrences(s, p) # {}

Min(S) == CHOOSE x \in S : \A y \in S : x <= y

\* str.find(sub, start): Python's 0-based index of the first occurrence at or
\* after start, -1 when there is none; a negative start counts from the end
first_index(hits) == IF hits = {} THEN -1 ELSE Min(hits) - 1

find(s, sub, start) ==
    first_index(OccurrencesFrom(s, sub,
        IF start >= 0 THEN start + 1
        ELSE IF Len(s) + start < 0 THEN 1 ELSE Len(s) + start + 1))

\* str.count(sub) for a one-character sub
count(s, sub) == Cardinality(Occurrences(s, sub))

\* str.replace(old, new, 1): the first occurrence only
replace_first(s, old, new) ==
    LET p == find(s, old, 0)
    IN  IF p < 0 THEN s
        ELSE SubSeq(s, 1, p) \o new \o SubSeq(s, p + Len(old) + 1, Len(s))

\* str.replace(old, new): every occurrence, left to right, not overlapping;
\* i is the 0-based index the search goes on from
RECURSIVE replace_from(_, _, _, _)
replace_from(s, old, new, i) ==
    LET p == find(s, old, i)
    IN  IF p < 0 THEN SubSeq(s, i + 1, Len(s))
        ELSE SubSeq(s, i + 1, p) \o new \o replace_from(s, old, new, p + Len(old))

replace(s, old, new) == replace_from(s, old, new, 0)

\* ------------------------------------------------- generate_large_module
header(n) ==
    "// Large module for performance testing\n"
    \o "// This module contains " \o ToString(n)
    \o " functions to test compilation and loading performance\n\n"

private_helper(i) ==
    "func privateHelper" \o ToString(i) \o "(x) {\n"
    \o "    let result = x * " \o ToString(i + 1) \o "\n"
    \o "    return result\n"
    \o "}\n\n"

\* the mistake of calling helper i itself
helper_index_not_wrapped(i) == i

\* privateHelper{i % 10}
helper_index(i) == i % 10

public_function(i) ==
    "export func publicFunction" \o ToString(i) \o "(a, b) {\n"
    \o "    let temp = privateHelper" \o ToString(helper_index(i)) \o "(a)\n"
    \o "    return temp + b\n"
    \o "}\n\n"

footer(n) ==
    "// Module initialization\n"
    \o "print(\"[Large Module] Loaded with " \o ToString(n) \o " functions\")\n"

\* the mistake of rounding the half up
loop_count_rounded_up(n) == (n + 1) \div 2

\* range(num_functions // 2)
loop_count(n) == n \div 2

GenInit ==
    /\ num_functions \in 0..MaxFunctions
    /\ gpc = "start"
    /\ gi = 0
    /\ code = ""
    \* the rewriter is not running while the generator runs
    /\ argv = <<>>
    /\ fs = <<>>
    /\ pc = "idle"
    /\ content = ""
    /\ stdout = <<>>
    /\ exit_code = -1

\* code = """// Large module ...""".format(num=num_functions)
GenHeader ==
    /\ gpc = "start"
    /\ code' = header(num_functions)
    /\ gi' = 0
    /\ gpc' = "helpers"
    /\ UNCHANGED num_functions
    /\ UNCHANGED rvars

\* one iteration of the first loop
GenPrivateHelper ==
    /\ gpc = "helpers"
    /\ gi < loop_count(num_functions)
    /\ code' = code \o private_helper(gi)
    /\ gi' = gi + 1
    /\ UNCHANGED <<num_functions, gpc>>
    /\ UNCHANGED rvars

\* the first loop is exhausted
GenHelpersDone ==
    /\ gpc = "helpers"
    /\ gi >= loop_count(num_functions)
    /\ gi' = 0
    /\ gpc' = "exports"
    /\ UNCHANGED <<num_functions, code>>
    /\ UNCHANGED rvars

\* one iteration of the second loop
GenPublicFunction ==
    /\ gpc = "exports"
    /\ gi < loop_count(num_functions)
    /\ code' = code \o public_function(gi)
    /\ gi' = gi + 1
    /\ UNCHANGED <<num_functions, gpc>>
    /\ UNCHANGED rvars

\* the second loop is exhausted: the footer is appended and the text returned
GenFooter ==
    /\ gpc = "exports"
    /\ gi >= loop_count(num_functions)
    /\ code' = code \o footer(num_functions)
    /\ gpc' = "done"
    /\ UNCHANGED <<num_functions, gi>>
    /\ UNCHANGED rvars

GenNext ==
    \/ GenHeader
    \/ GenPrivateHelper
    \/ GenHelpersDone
    \/ GenPublicFunction
    \/ GenFooter

SpecGen == GenInit /\ [][GenNext]_vars


\* ------------------------------------------------------------ Python re
\* A pattern is the sequence of the tokens of the regular expression; a token
\* is [t |-> kind, v |-> what it holds].
Lit(v) == [t |-> "lit", v |-> v]        \* literal text ( \( and \. included )
Star(c) == [t |-> "star", v |-> c]      \* c*, greedy, c a character class
Plus(c) == [t |-> "plus", v |-> c]      \* c+, greedy
Opt(v) == [t |-> "opt", v |-> v]        \* v?, greedy, v literal text
Open == [t |-> "open", v |-> ""]        \* ( of a group
Close == [t |-> "close", v |-> ""]      \* ) of a group
NotAhead(p) == [t |-> "nla", v |-> p]   \* (?!p)
Ws == Star("space")                       \* \s*

\* \w (ASCII; the texts of the model hold no other word characters)
WordChars ==
    { "a", "b", "c", "d", "e", "f", "g", "h", "i", "j", "k", "l", "m",
      "n", "o", "p", "q", "r", "s", "t", "u", "v", "w", "x", "y", "z",
      "A", "B", "C", "D", "E", "F", "G", "H", "I", "J", "K", "L", "M",
      "N", "O", "P", "Q", "R", "S", "T", "U", "V", "W", "X", "Y", "Z",
      "0", "1", "2", "3", "4", "5", "6", "7", "8", "9", "_" }

\* whether the one-character text ch is in class c: \s, \w, [^)], [^,]
InClass(c, ch) ==
    /\ ch # ""
    /\ CASE c = "space" -> ch \in { " ", "\n", "\t" }
         [] c = "word" -> ch \in WordChars
         [] c = "notparen" -> ch # ")"
         [] c = "notcomma" -> ch # ","

\* the position after the longest run of class c that starts at position i
run_end(s, i, c) == Min({ j \in i..(Len(s) + 1) : ~InClass(c, Ch(s, j)) })

\* a match: end is the position after it, gs and ge the starts and the ends
\* (exclusive) of its groups
NoMatch == [ok |-> FALSE, end |-> 0, gs |-> <<>>, ge |-> <<>>]

opened(m, i) == IF m.ok THEN [m EXCEPT !.gs = <<i>> \o m.gs] ELSE m
closed(m, i) == IF m.ok THEN [m EXCEPT !.ge = <<i>> \o m.ge] ELSE m

RECURSIVE match_at(_, _, _, _)

\* of the ways <<e, m>> to go on after a repetition that ended before e, the
\* one that kept the most characters
greediest(ways) ==
    IF ways = {} THEN NoMatch
    ELSE (CHOOSE w \in ways : \A o \in ways : w[1] >= o[1])[2]

\* a repetition gives back characters until the rest of the pattern matches
repeat(p, k, s, i, least) ==
    greediest({ w \in { <<e, match_at(p, k + 1, s, e)>> :
                            e \in (i + least)..run_end(s, i, p[k].v) } :
                  w[2].ok })

optional(p, k, s, i, taken) ==
    IF taken.ok THEN taken ELSE match_at(p, k + 1, s, i)

\* the tokens p[k..] matched at position i of s, as re's backtracking does
match_at(p, k, s, i) ==
    IF k > Len(p) THEN [ok |-> TRUE, end |-> i, gs |-> <<>>, ge |-> <<>>]
    ELSE CASE p[k].t = "lit" ->
                IF StartsAt(s, i, p[k].v)
                THEN match_at(p, k + 1, s, i + Len(p[k].v))
                ELSE NoMatch
           [] p[k].t = "star" -> repeat(p, k, s, i, 0)
           [] p[k].t = "plus" -> repeat(p, k, s, i, 1)
           [] p[k].t = "opt" ->
                optional(p, k, s, i,
                         IF StartsAt(s, i, p[k].v)
                         THEN match_at(p, k + 1, s, i + Len(p[k].v))
                         ELSE NoMatch)
           [] p[k].t = "open" -> opened(match_at(p, k + 1, s, i), i)
           [] p[k].t = "close" -> closed(match_at(p, k + 1, s, i), i)
           [] p[k].t = "nla" ->
                IF match_at(p[k].v, 1, s, i).ok THEN NoMatch
                ELSE match_at(p, k + 1, s, i)

\* re.match(p, s, pos = i - 1)
match(p, s, i) == match_at(p, 1, s, i)

\* match.group(g)
group(s, m, g) == SubSeq(s, m.gs[g], m.ge[g] - 1)

\* a replacement template is a sequence of texts and group references
Text(v) == [g |-> 0, v |-> v]
Ref(g) == [g |-> g, v |-> ""]           \* \g

\* match.expand(template)
RECURSIVE expand_from(_, _, _, _)
expand_from(tpl, k, s, m) ==
    IF k > Len(tpl) THEN ""
    ELSE (IF tpl[k].g > 0 THEN group(s, m, tpl[k].g) ELSE tpl[k].v)
         \o expand_from(tpl, k + 1, s, m)

expand(tpl, s, m) == expand_from(tpl, 1, s, m)

\* the start of the first match at or after position i, 0 when there is none
first_start(starts) == IF starts = {} THEN 0 ELSE Min(starts)

\* (every pattern begins with literal text, and a match begins where that does)
next_match(p, s, i) ==
    first_start({ j \in OccurrencesFrom(s, p[1].v, i) : match(p, s, j).ok })

RECURSIVE sub_from(_, _, _, _)

sub_match(p, tpl, s, i, j, m) ==
    SubSeq(s, i, j - 1) \o expand(tpl, s, m) \o sub_from(p, tpl, s, m.end)

sub_at(p, tpl, s, i, j) ==
    IF j = 0 THEN SubSeq(s, i, Len(s))
    ELSE sub_match(p, tpl, s, i, j, match(p, s, j))

\* the text from position i on with every match replaced
sub_from(p, tpl, s, i) == sub_at(p, tpl, s, i, next_match(p, s, i))

\* re.sub(p, tpl, s): matches found left to right, not overlapping
re_sub(p, tpl, s) == sub_from(p, tpl, s, 1)

RECURSIVE finditer_from(_, _, _)

found(p, s, j, m) ==
    <<[start |-> j - 1, group0 |-> SubSeq(s, j, m.end - 1)]>>
    \o finditer_from(p, s, m.end)

finditer_at(p, s, j) == IF j = 0 THEN <<>> ELSE found(p, s, j, match(p, s, j))

finditer_from(p, s, i) == finditer_at(p, s, next_match(p, s, i))

\* list(re.finditer(p, s)): start is Python's match.start(), group0 the
\* matched text
finditer(p, s) == finditer_from(p, s, 1)

\* ----------------------------------------------- refactor_parser_memory
anchor == "#include \"parser/parser.h\""
includes == "#include \"utils/allocators.h\"\n"

\* the mistake of leaving the count 1 out of the call of replace
add_includes_everywhere(s) == replace(s, anchor, anchor \o "\n" \o includes)

\* step 1: content.replace(anchor, anchor + '\n' + includes, 1)
add_includes(s) == replace_first(s, anchor, anchor \o "\n" \o includes)

\* r'#include <stdlib\.h>\n'
stdlib_pattern == <<Lit("#include <stdlib.h>\n")>>

\* step 2: re.sub(r'#include <stdlib\.h>\n', '', content)
remove_stdlib(s) == re_sub(stdlib_pattern, <<>>, s)

\* \s*\)\s*\)  the end of the sizeof and of the call
CloseBoth == <<Ws, Lit(")"), Ws, Lit(")")>>

\* name\s*\(\s*
Call(name) == <<Lit(name), Ws, Lit("("), Ws>>

\* sizeof\s*\(\s*
Sizeof == <<Lit("sizeof"), Ws, Lit("("), Ws>>

ALLOC == "allocators_get(ALLOC_SYSTEM_PARSER), "

\* malloc\s*\(\s*sizeof\s*\(\s*(\w+)\s*\)\s*\)
malloc_sizeof ==
    [pattern |-> Call("malloc") \o Sizeof \o <<Open, Plus("word"), Close>>
                 \o CloseBoth,
     replacement |-> <<Text("MEM_NEW(" \o ALLOC), Ref(1), Text(")")>>]

\* malloc\s*\(\s*(\w+)\s*\*\s*sizeof\s*\(\s*(\w+\*?)\s*\)\s*\)
malloc_array ==
    [pattern |-> Call("malloc") \o <<Open, Plus("word"), Close, Ws, Lit("*"), Ws>>
                 \o Sizeof \o <<Open, Plus("word"), Opt("*"), Close>>
                 \o CloseBoth,
     replacement |-> <<Text("MEM_NEW_ARRAY(" \o ALLOC), Ref(2), Text(", "),
                       Ref(1), Text(")")>>]

\* calloc\s*\(\s*1\s*,\s*sizeof\s*\(\s*(\w+)\s*\)\s*\)
calloc_one ==
    [pattern |-> Call("calloc") \o <<Lit("1"), Ws, Lit(","), Ws>>
                 \o Sizeof \o <<Open, Plus("word"), Close>> \o CloseBoth,
     replacement |-> <<Text("MEM_NEW(" \o ALLOC), Ref(1), Text(")")>>]

\* calloc\s*\(\s*(\w+)\s*,\s*sizeof\s*\(\s*(\w+\*?)\s*\)\s*\)
calloc_array ==
    [pattern |-> Call("calloc") \o <<Open, Plus("word"), Close, Ws, Lit(","), Ws>>
                 \o Sizeof \o <<Open, Plus("word"), Opt("*"), Close>>
                 \o CloseBoth,
     replacement |-> <<Text("MEM_NEW_ARRAY(" \o ALLOC), Ref(2), Text(", "),
                       Ref(1), Text(")")>>]

\* ([^)]+)\s*\)
Argument == <<Open, Plus("notparen"), Close, Ws, Lit(")")>>

\* malloc\s*\(\s*([^)]+)\s*\)(?!\s*\*\s*sizeof)
malloc_generic ==
    [pattern |-> Call("malloc") \o Argument
                 \o <<NotAhead(<<Ws, Lit("*"), Ws, Lit("sizeof")>>)>>,
     replacement |-> <<Text("MEM_ALLOC(" \o ALLOC), Ref(1), Text(")")>>]

\* strdup\s*\(\s*([^)]+)\s*\)
strdup ==
    [pattern |-> Call("strdup") \o Argument,
     replacement |-> <<Text("MEM_STRDUP(" \o ALLOC), Ref(1), Text(")")>>]

\* the mistake of listing the generic rule before the rules for the shapes
replacements_generic_first ==
    <<malloc_generic, malloc_sizeof, malloc_array, calloc_one, calloc_array,
      strdup>>

\* the list replacements, in its order
replacements ==
    <<malloc_sizeof, malloc_array, calloc_one, calloc_array, malloc_generic,
      strdup>>

\* for pattern, replacement in replacements[k:]: content = re.sub(...)
RECURSIVE apply_from(_, _, _)
apply_from(rs, k, s) ==
    IF k > Len(rs) THEN s
    ELSE apply_from(rs, k + 1, re_sub(rs[k].pattern, rs[k].replacement, s))

apply_replacements(s) == apply_from(replacements, 1, s)

\* the text the function returns: steps 1 and 2, then the rules
rewritten(s) == apply_replacements(remove_stdlib(add_includes(s)))

\* free\s*\(\s*([^)]+)\s*\)
free_pattern == Call("free") \o Argument

\* realloc\s*\(\s*([^,]+)\s*,\s*([^)]+)\s*\)
realloc_pattern ==
    Call("realloc") \o <<Open, Plus("notcomma"), Close, Ws, Lit(","), Ws>>
    \o Argument

\* line_num = content[:match.start()].count('\n') + 1
line_num(s, m) == count(SubSeq(s, 1, m.start), "\n") + 1

\* print(f"  Line ~{line_num}: {match.group(0)}") for each match
report_lines(s, ms) ==
    [k \in 1..Len(ms) |->
        "  Line ~" \o ToString(line_num(s, ms[k])) \o ": " \o ms[k].group0]

\* if matches: print(f"{lead}Found {len(matches)} {what}") and the lines
report(s, ms, lead, what) ==
    IF ms = <<>> THEN <<>>
    ELSE <<lead \o "Found " \o ToString(Len(ms)) \o what>> \o report_lines(s, ms)

\* the text the two reports search: content, as the rules left it
free_matches(s) == finditer(free_pattern, s)
realloc_matches(s) == finditer(realloc_pattern, s)

free_report(s) ==
    report(s, free_matches(s), "",
           " free() calls that need manual size tracking:")

realloc_report(s) ==
    report(s, realloc_matches(s), "\n",
           " realloc() calls that need special handling:")

\* what refactor_parser_memory prints, c being content as the rules left it
printed(c) == free_report(c) \o realloc_report(c)

\* what refactor_parser_memory(s) returns
refactor_parser_memory(s) == rewritten(s)

\* ------------------------------------------------ add_allocator_helpers
helpers ==
    "\n// Helper function to duplicate token lexeme using parser allocator\n"
    \o "static char* parser_strdup_lexeme(const char* lexeme, size_t length)\n"
    \o "{\n"
    \o "    Allocator* alloc = allocators_get(ALLOC_SYSTEM_PARSER);\n"
    \o "    char* result = MEM_ALLOC(alloc, length + 1);\n"
    \o "    if (result) {\n"
    \o "        memcpy(result, lexeme, length);\n"
    \o "        result[length] = '\\0';\n"
    \o "    }\n"
    \o "    return result;\n"
    \o "}\n"
    \o "\n"
    \o "// Helper to free string allocated by parser\n"
    \o "static void parser_free_string(char* str)\n"
    \o "{\n"
    \o "    if (str) {\n"
    \o "        Allocator* alloc = allocators_get(ALLOC_SYSTEM_PARSER);\n"
    \o "        MEM_FREE(alloc, str, strlen(str) + 1);\n"
    \o "    }\n"
    \o "}\n"
    \o "\n"

\* insert_pos = content.find('\n\n', content.find('#include')), 0-based
insert_pos(s) == find(s, "\n\n", find(s, "#include", 0))

\* what is put at insert_pos
inserted_helpers == "\n" \o helpers

add_allocator_helpers(s) ==
    LET p == insert_pos(s)
    IN  IF p > 0
        THEN SubSeq(s, 1, p) \o inserted_helpers \o SubSeq(s, p + 1, Len(s))
        ELSE s

\* ------------------------------------------------------------ __main__
program == "refactor_parser.py"
usage == "Usage: python refactor_parser.py <parser.c>"

\* the mistake of testing for a missing argument only
bad_arity_too_few(a) == Len(a) < 2

\* len(sys.argv) != 2
bad_arity(a) == Len(a) # 2

\* filename.replace('.c', '_refactored.c')
output_filename(filename) == replace(filename, ".c", "_refactored.c")

summary(out) ==
    << "\nRefactored parser written to: " \o out,
       "\nManual review needed for:",
       "1. All free() calls - need to track sizes",
       "2. All realloc() calls - need old and new sizes",
       "3. Complex allocation patterns",
       "4. Ensure all allocations use ALLOC_SYSTEM_PARSER" >>

\* the lines a source text of the model is made of
Lines ==
    << anchor,
       "#include <stdlib.h>",
       "// #include <stdlib.h>",
       "",
       "#include \"lexer.h\"",
       "p = malloc(sizeof(Foo)); s = strdup(t);",
       "a = malloc(n * sizeof(Bar)); d = calloc(n, sizeof(Bar*));",
       "b = malloc(100); c = calloc(1, sizeof(Foo)); m = malloc(k) * sizeof(T);",
       "free(ptr); q = realloc(q, n); // or free",
       "(a);" >>

\* the lines ls[k..], each ended by a newline; the last one only when nl
RECURSIVE join_from(_, _, _)
join_from(ls, k, nl) ==
    IF k > Len(ls) THEN ""
    ELSE Lines[ls[k]] \o (IF k < Len(ls) \/ nl THEN "\n" ELSE "")
         \o join_from(ls, k + 1, nl)

LineSeqs(n) == UNION { [1..k -> 1..Len(Lines)] : k \in 0..n }

\* the paths the files are stored under
FileNames == { "parser.c", "src.core/lexer.c", "parser.cpp", "Makefile" }

\* the command lines tried: no argument, one (a file there is or is not), two
Argvs ==
    { <<program>>, <<program, "missing.c">>, <<program, "parser.c", "lexer.c">> }
    \cup { <<program, f>> : f \in FileNames }

Init ==
    \* the generator is not running while the rewriter runs
    /\ num_functions = 0
    /\ gpc = "idle"
    /\ gi = 0
    /\ code = ""
    /\ \E ls \in LineSeqs(MaxLines), nl \in BOOLEAN :
          fs = [f \in FileNames |-> join_from(ls, 1, nl)]
    /\ argv \in Argvs
    \* the other command lines are tried on the texts of at most one short line
    /\ argv = <<program, "parser.c">> \/ Len(fs["parser.c"]) <= Len(anchor) + 1
    /\ pc = "start"
    /\ content = ""
    /\ stdout = <<>>
    /\ exit_code = -1

\* if len(sys.argv) != 2: print the usage and sys.exit(1)
Usage ==
    /\ pc = "start"
    /\ bad_arity(argv)
    /\ stdout' = Append(stdout, usage)
    /\ exit_code' = 1
    /\ pc' = "exited"
    /\ UNCHANGED <<argv, fs, content>>
    /\ UNCHANGED gvars

\* with open(filename, 'r') as f: content = f.read()
ReadFile ==
    /\ pc = "start"
    /\ ~bad_arity(argv)
    /\ argv[2] \in DOMAIN fs
    /\ content' = fs[argv[2]]
    /\ pc' = "read"
    /\ UNCHANGED <<argv, fs, stdout, exit_code>>
    /\ UNCHANGED gvars

\* open() raises FileNotFoundError, which nothing catches
ReadFails ==
    /\ pc = "start"
    /\ ~bad_arity(argv)
    /\ argv[2] \notin DOMAIN fs
    /\ exit_code' = 1
    /\ pc' = "crashed"
    /\ UNCHANGED <<argv, fs, content, stdout>>
    /\ UNCHANGED gvars

\* content = refactor_parser_memory(content)
Refactor ==
    /\ pc = "read"
    /\ content' = refactor_parser_memory(content)
    /\ stdout' = stdout \o printed(content')
    /\ pc' = "refactored"
    /\ UNCHANGED <<argv, fs, exit_code>>
    /\ UNCHANGED gvars

\* content = add_allocator_helpers(content)
AddHelpers ==
    /\ pc = "refactored"
    /\ content' = add_allocator_helpers(content)
    /\ pc' = "helped"
    /\ UNCHANGED <<argv, fs, stdout, exit_code>>
    /\ UNCHANGED gvars

\* the output file is written, the summary printed, and the script ends
WriteFile ==
    /\ pc = "helped"
    /\ LET out == output_filename(argv[2])
       IN  /\ fs' = [f \in DOMAIN fs \cup {out} |->
                        IF f = out THEN content ELSE fs[f]]
           /\ stdout' = stdout \o summary(out)
    /\ exit_code' = 0
    /\ pc' = "done"
    /\ UNCHANGED <<argv, content>>
    /\ UNCHANGED gvars

Next ==
    \/ Usage
    \/ ReadFile
    \/ ReadFails
    \/ Refactor
    \/ AddHelpers
    \/ WriteFile

Spec == Init /\ [][Next]_vars

\* ======================================================== the generator
\* how many times p occurs in the text s
sites(s, p) == Cardinality(Occurrences(s, p))

private_definition(i) == "func privateHelper" \o ToString(i) \o "(x) {\n"
export_definition(i) == "export func publicFunction" \o ToString(i) \o "(a, b) {\n"
helper_call == "    let temp = privateHelper"

\* C1: the text generate_large_module(n) returns holds exactly floor(n/2)
\* private-helper definitions, privateHelper0 to privateHelper{k-1} once each,
\* and exactly floor(n/2) exported-function definitions, publicFunction0 to
\* publicFunction{k-1} once each; for n = 0 and n = 1 it is the header and the
\* footer and nothing else.
GeneratorCounts ==
    gpc = "done" =>
        /\ sites(code, "func privateHelper") = num_functions \div 2
        /\ sites(code, "func publicFunction") = num_functions \div 2
        /\ sites(code, "export func ") = num_functions \div 2
        /\ \A i \in 0..(num_functions \div 2 - 1) :
              /\ sites(code, private_definition(i)) = 1
              /\ sites(code, export_definition(i)) = 1
        /\ num_functions \in {0, 1} =>
              /\ code = header(num_functions) \o footer(num_functions)
              /\ sites(code, "func ") = 0

\* an odd count above one has been generated: the half is rounded down
GeneratorCountsWitness ==
    /\ gpc = "done"
    /\ num_functions = 23
    /\ sites(code, "func privateHelper") = 11

\* C2: for n >= 20 the exported function publicFunction{i}, i from 0 to
\* floor(n/2) - 1, calls privateHelper{i mod 10} and no other helper, so that
\* every helper an exported function calls has an index from 0 to 9.
HelperReuse ==
    gpc = "done" /\ num_functions >= 20 =>
        /\ \A i \in 0..(num_functions \div 2 - 1) :
              Contains(code, export_definition(i) \o helper_call
                             \o ToString(i % 10) \o "(a)\n")
        /\ sites(code, "privateHelper") = 2 * (num_functions \div 2)
        /\ \A j \in Occurrences(code, helper_call) :
              \E d \in 0..9 :
                  StartsAt(code, j + Len(helper_call), ToString(d) \o "(a)\n")

\* more than ten exported functions have been generated: publicFunction10
\* calls privateHelper0 again
HelperReuseWitness ==
    /\ gpc = "done"
    /\ num_functions >= 22
    /\ Contains(code, export_definition(10) \o helper_call \o "0(a)\n")

\* ========================================================= the rewriter
\* the text the tool was started on (while the tool runs, after the read)
input == fs[argv[2]]

named == "allocators_get(ALLOC_SYSTEM_PARSER)"

\* C3: the rules classify an allocation by its shape: malloc(sizeof(T))
\* becomes MEM_NEW(allocator, T) and is gone from the text, malloc(n * sizeof(T))
\* becomes MEM_NEW_ARRAY(allocator, T, n), and malloc(N) with a plain size N
\* becomes MEM_ALLOC(allocator, N) and no array call; the generic rule rewrites
\* the plain calls only: it leaves what rules 3 to 6 rewrote as they wrote it
\* and leaves a malloc(k) that is followed by * sizeof alone.
AllocationShapes ==
    pc = "refactored" =>
        /\ Contains(input, "malloc(sizeof(Foo))") =>
              /\ Contains(content, "MEM_NEW(" \o named \o ", Foo)")
              /\ ~Contains(content, "malloc(sizeof(Foo))")
        /\ Contains(input, "malloc(n * sizeof(Bar))") =>
              Contains(content, "MEM_NEW_ARRAY(" \o named \o ", Bar, n)")
        /\ Contains(input, "malloc(100)") =>
              /\ Contains(content, "MEM_ALLOC(" \o named \o ", 100)")
              /\ ~Contains(content, "MEM_NEW_ARRAY(" \o named \o ", 100")
              /\ ~Contains(content, ", 100)) ")
        /\ sites(content, "MEM_NEW(") =
              sites(input, "malloc(sizeof(Foo))")
              + sites(input, "calloc(1, sizeof(Foo))")
        /\ sites(content, "MEM_NEW_ARRAY(") =
              sites(input, "malloc(n * sizeof(Bar))")
              + sites(input, "calloc(n, sizeof(Bar*))")
        /\ sites(content, "MEM_ALLOC(") = sites(input, "malloc(100)")
        /\ sites(content, "malloc(k) * sizeof(T)") =
              sites(input, "malloc(k) * sizeof(T)")

\* a text with the three shapes has been rewritten
AllocationShapesWitness ==
    /\ pc = "refactored"
    /\ Contains(input, "malloc(sizeof(Foo))")
    /\ Contains(input, "malloc(n * sizeof(Bar))")
    /\ Contains(input, "malloc(100)")
    /\ Contains(content, "MEM_ALLOC(" \o named \o ", 100)")

\* the texts the matches ms matched
texts(ms) == [k \in 1..Len(ms) |-> ms[k].group0]

\* C4: when the text the tool is started on holds exactly one deallocation
\* call and that is free(ptr), the rewritten text still holds free(ptr) and
\* the tool reports exactly one deallocation call site.
FreeUntouched ==
    pc = "refactored" /\ texts(free_matches(input)) = <<"free(ptr)">> =>
        /\ Contains(content, "free(ptr)")
        /\ stdout # <<>>
        /\ stdout[1] = "Found 1 free() calls that need manual size tracking:"

\* C5: the line number reported for a free or realloc call site is the number
\* of the line of that call in the text the tool was started on, whatever
\* lines the rewrite steps added or removed before it.
ReportedLinesOfInput ==
    /\ pc = "refactored"
    /\ texts(free_matches(content)) = texts(free_matches(input))
    /\ texts(realloc_matches(content)) = texts(realloc_matches(input))
    => stdout = printed(input)

\* none of the names of the calls the tool looks for occurs in the text s
NoCalls(s) ==
    \A name \in { "malloc", "calloc", "realloc", "free", "strdup" } :
        ~Contains(s, name)

\* the text s with the line of the allocator header, a line break before it,
\* put right after the first anchor
injected(s) ==
    SubSeq(s, 1, Min(Occurrences(s, anchor)) + Len(anchor) - 1)
    \o "\n#include \"utils/allocators.h\"\n"
    \o SubSeq(s, Min(Occurrences(s, anchor)) + Len(anchor), Len(s))

\* the text s without any "#include <stdlib.h>" that a line break follows
without_stdlib(s) == replace(s, "#include <stdlib.h>\n", "")

\* the blank lines of s (the second of two line breaks) after its first #include
blanks(s) ==
    { j \in Occurrences(s, "\n\n") :
          \E i \in Occurrences(s, "#include") : i < j }

\* the text s with a line break and the helper block put before the line
\* break that makes the first such blank line, s itself when there is none
with_helper_block(s) ==
    IF blanks(s) = {} THEN s
    ELSE SubSeq(s, 1, Min(blanks(s)) - 1) \o "\n" \o helpers
         \o SubSeq(s, Min(blanks(s)), Len(s))

line_starts(s) == { j \in 1..Len(s) : j = 1 \/ Ch(s, j - 1) = "\n" }

\* the position after the leading block of s: the start of its first line
\* that is no include directive
leading_block_end(s) ==
    Min({ j \in line_starts(s) : ~StartsAt(s, j, "#include") }
        \cup { Len(s) + 1 })

\* the include directives of the texts of the model
Directives == { Lines[1], Lines[2], Lines[5] }

\* the directives of the leading block of include lines of s
leading_includes(s) ==
    { d \in Directives :
          \E j \in line_starts(s) :
              j < leading_block_end(s) /\ StartsAt(s, j, d) }

\* C7: in a run of the tool the helper block is put right after the first
\* blank line that follows the first #include of the rewritten text, and no
\* #include of the leading block of include lines of the input comes after
\* it; without such a blank line the text is left as it was.
HelpersAfterIncludes ==
    pc = "helped" =>
        /\ content = with_helper_block(refactor_parser_memory(input))
        /\ \A d \in leading_includes(input) :
              \A j \in Occurrences(content, d) :
                  \A h \in Occurrences(content, helpers) : j < h

\* whether the path ends with .c, and the path without that ending
ends_with_c(path) ==
    Len(path) >= 2 /\ SubSeq(path, Len(path) - 1, Len(path)) = ".c"
stem(path) == SubSeq(path, 1, Len(path) - 2)

\* C8: the output is written to the path of the input with its trailing .c
\* replaced by _refactored.c, and nothing else of the path changed.
OutputPath ==
    pc = "done" /\ ends_with_c(argv[2]) =>
        DOMAIN fs = FileNames \cup { stem(argv[2]) \o "_refactored.c" }

\* C9: started with a number of arguments other than one, the tool prints the
\* usage and exits with status 1, and that is the only step it takes: it reads
\* no file, rewrites nothing and writes no file; started with one argument it
\* reads the file, rewrites the text, adds the helpers and writes the output,
\* in that order.
ArityGate ==
    [][ /\ Len(argv) # 2 =>
              /\ pc = "start" /\ pc' = "exited"
              /\ stdout' = <<usage>>
              /\ exit_code' = 1
              /\ content' = "" /\ fs' = fs
        /\ Len(argv) = 2 =>
              \/ /\ pc = "start" /\ pc' = "read"
                 /\ content' = fs[argv[2]] /\ fs' = fs /\ stdout' = <<>>
              \/ /\ pc = "start" /\ pc' = "crashed"
                 /\ argv[2] \notin DOMAIN fs /\ fs' = fs /\ stdout' = <<>>
              \/ /\ pc = "read" /\ pc' = "refactored"
                 /\ fs' = fs /\ exit_code' = -1
              \/ /\ pc = "refactored" /\ pc' = "helped"
                 /\ fs' = fs /\ stdout' = stdout /\ exit_code' = -1
              \/ /\ pc = "helped" /\ pc' = "done"
                 /\ DOMAIN fs' = DOMAIN fs \cup { output_filename(argv[2]) }
                 /\ fs'[output_filename(argv[2])] = content
                 /\ exit_code' = 0
      ]_vars

\* the tool, started with two arguments, has printed the usage and exited
ArityGateWitness ==
    /\ Len(argv) = 3
    /\ pc = "exited"
    /\ stdout = <<usage>>
    /\ exit_code = 1
    /\ DOMAIN fs = FileNames

\* the text s without its lines that are exactly #include <stdlib.h>
RECURSIVE without_directive_lines(_)
without_directive_lines(s) ==
    IF s = "" THEN ""
    ELSE IF ~Contains(s, "\n")
         THEN (IF s = "#include <stdlib.h>" THEN "" ELSE s)
         ELSE (IF StartsAt(s, 1, "#include <stdlib.h>\n") THEN ""
               ELSE SubSeq(s, 1, Min(Occurrences(s, "\n"))))
              \o without_directive_lines(
                     SubSeq(s, Min(Occurrences(s, "\n")) + 1, Len(s)))

\* C10: step 2 deletes every line that is exactly #include <stdlib.h>, the
\* last line of the text included, and nothing else: a line that holds the
\* directive after other characters is left as it is.  (Stated on the texts
\* that steps 1 and 3 to 8 leave alone.)
DeadIncludeRemoval ==
    pc = "refactored" /\ ~Contains(input, anchor) /\ NoCalls(input) =>
        content = without_directive_lines(input)

====
